---- MODULE Spec2Model ----
(***************************************************************************)
(* A model of cumulusci/util/xml/metadata_tree.py: the MetadataElement     *)
(* wrapper over an lxml element tree.                                      *)
(*                                                                         *)
(* The lxml tree is the sequence `elem`: element number e is elem[e], a    *)
(* record of its local tag, its own text and the ordered list of its       *)
(* children (lxml counts comments among the children of an element, so a   *)
(* child may be a comment node).  A MetadataElement is a pair              *)
(* [element, parent] of element numbers, as its __slots__ _element and     *)
(* _parent are; None is 0.  `last` records the last call made: its         *)
(* receiver, its arguments, the receiver's child list before the call, and *)
(* what the call returned or raised.  `changes` counts the calls that      *)
(* changed the tree.                                                       *)
(***************************************************************************)
EXTENDS Integers, Sequences, FiniteSets

VARIABLES elem, last, changes

vars == <<elem, last, changes>>

\* ------------------------------------------------------------- bounds
\* Calls that change the tree (a creation or a removal) in one run.
MaxChanges == 1

\* ------------------------------------------------------------- values
None == 0
NoneText == "None"
RootTag == "Package"
TextTag == "text"
CommentTag == "#comment"
\* The tags and texts callers pass.
Tags == {"members", TextTag}
NewTexts == {NoneText, "A"}
FindTexts == {NoneText, "", "A"}
\* The indexes insert() is tried with on n children: each way an index
\* can fall in or out of the list, from either end.
Indexes(n) == (0 - n - 1) .. (n + 1)
\* The indexes node[i] is tried with among n siblings: the last one (-1),
\* each of them, and one past them.
ItemIndexes(n) == (0 - 1) .. n

El(tag, text, kids) == [tag |-> tag, text |-> text, kids |-> kids]

\* The documents parse() and fromstring() are given.
Documents ==
  { << El(RootTag, NoneText, <<>>) >>,
    << El(RootTag, NoneText, <<2, 3>>),
       El(TextTag, "A", <<>>), El("members", "A", <<>>) >>,
    << El(RootTag, NoneText, <<2, 4, 5>>),
       El("members", NoneText, <<3>>), El(CommentTag, NoneText, <<>>),
       El("members", "A", <<>>), El("members", NoneText, <<>>) >>,
    << El(RootTag, NoneText, <<2>>),
       El("members", NoneText, <<3>>), El(TextTag, "A", <<>>) >> }

\* ------------------------------------------------------------ wrappers
\* MetadataElement(element, parent)
MetadataElement(element, parent) == [element |-> element, parent |-> parent]

NoWrapper == MetadataElement(None, None)

\* parse(source) / fromstring(source): the root, wrapped with no parent.
fromstring == MetadataElement(1, None)

\* A wrapper handed its maker's own parent.
WrapElementOwnParent(self, child) == MetadataElement(child, self.parent)

\* self._wrap_element(child)
WrapElement(self, child) == MetadataElement(child, self.element)

\* ------------------------------------------------------- lxml element
\* element.findall("{ns}tag"): the direct children with that tag, in order.
ElFindall(el, e, tag) == SelectSeq(el[e].kids, LAMBDA c : el[c].tag = tag)

\* element.find("{ns}tag"): the first of them, or None.
ElFind(el, e, tag) ==
  LET found == ElFindall(el, e, tag)
  IN  IF found = <<>> THEN None ELSE Head(found)

IsChild(kids, c) == \E i \in 1 .. Len(kids) : kids[i] = c

\* element.index(child), 0-based; the caller has checked IsChild.
ElIndex(kids, c) == (CHOOSE i \in 1 .. Len(kids) : kids[i] = c) - 1

InsertAt(kids, pos, c) ==
  SubSeq(kids, 1, pos) \o <<c>> \o SubSeq(kids, pos + 1, Len(kids))

\* element.insert(index, child): before the child now at `index`, counted
\* from the end when negative; appended when there is no such child.
ElInsert(kids, index, c) ==
  LET n == Len(kids)
  IN  IF index >= 0
      THEN IF index < n THEN InsertAt(kids, index, c) ELSE Append(kids, c)
      ELSE IF -index <= n THEN InsertAt(kids, n + index, c)
           ELSE Append(kids, c)

\* element.remove(child); the caller has checked IsChild.
ElRemove(kids, c) == SelectSeq(kids, LAMBDA k : k # c)

\* ------------------------------------------------------------ the call
Call(op, self, tag, text, index, arg, result, value, error) ==
  [op |-> op, recv |-> self, tag |-> tag, text |-> text, index |-> index,
   arg |-> arg, before |-> elem[self.element].kids, result |-> result,
   value |-> value, error |-> error]

NoCall ==
  [op |-> "parse", recv |-> fromstring, tag |-> "", text |-> NoneText,
   index |-> 0, arg |-> NoWrapper, before |-> <<>>, result |-> fromstring,
   value |-> NoneText, error |-> ""]

\* The wrappers the caller holds: the root and those of the last call.
Held ==
  {w \in {fromstring, last.recv, last.result} :
     w # NoWrapper /\ elem[w.element].tag # CommentTag}

\* ------------------------------------------------------------ mutation
\* self._create_child(tag, text): a new element, wrapped with self as parent.
NewId == Len(elem) + 1

WithChild(el, e, kids, tag, text) ==
  Append([el EXCEPT ![e].kids = kids], El(tag, text, <<>>))

\* An append that always adds at the end.
AppendKidsAtEnd(el, e, tag, new) == Append(el[e].kids, new)

\* Where append(tag, ...) puts the new child.
AppendKids(el, e, tag, new) ==
  LET same_elements == ElFindall(el, e, tag)
      kids == el[e].kids
  IN  IF same_elements # <<>>
      THEN ElInsert(kids,
                    ElIndex(kids, same_elements[Len(same_elements)]) + 1, new)
      ELSE Append(kids, new)

\* append(tag, text)
AppendChild(self, tag, text) ==
  /\ changes < MaxChanges
  /\ changes' = changes + 1
  /\ elem' = WithChild(elem, self.element,
                       AppendKids(elem, self.element, tag, NewId), tag, text)
  /\ last' = Call("append", self, tag, text, 0, NoWrapper,
                  WrapElement(self, NewId), NoneText, "")

\* An insert that is off by one.
InsertKidsOffByOne(el, e, index, new) == ElInsert(el[e].kids, index + 1, new)

\* insert(index, tag, text)
InsertKids(el, e, index, new) == ElInsert(el[e].kids, index, new)

InsertChild(self, index, tag, text) ==
  /\ changes < MaxChanges
  /\ changes' = changes + 1
  /\ elem' = WithChild(elem, self.element,
                       InsertKids(elem, self.element, index, NewId), tag, text)
  /\ last' = Call("insert", self, tag, text, index, NoWrapper,
                  WrapElement(self, NewId), NoneText, "")

\* An insertAfter that hands insert() the child's own index.
InsertAfterIndexOfChild(kids, old) == ElIndex(kids, old)

\* The index insertBefore / insertAfter hand to insert().
InsertBeforeIndex(kids, old) == ElIndex(kids, old)

InsertAfterIndex(kids, old) == ElIndex(kids, old) + 1

\* insertBefore(oldElement, tag, text): element.index() raises ValueError
\* for an element that is no child, before anything is created.
InsertBefore(self, oldElement) ==
  LET kids == elem[self.element].kids
  IN  IF IsChild(kids, oldElement.element)
      THEN \E tag \in Tags, text \in NewTexts :
             /\ changes < MaxChanges
             /\ changes' = changes + 1
             /\ elem' = WithChild(elem, self.element,
                          InsertKids(elem, self.element,
                                     InsertBeforeIndex(kids, oldElement.element),
                                     NewId),
                          tag, text)
             /\ last' = Call("insertBefore", self, tag, text, 0, oldElement,
                             WrapElement(self, NewId), NoneText, "")
      ELSE /\ last' = Call("insertBefore", self, "", NoneText, 0, oldElement,
                           NoWrapper, NoneText, "ValueError")
           /\ UNCHANGED <<elem, changes>>

\* insertAfter(oldElement, tag, text)
InsertAfter(self, oldElement) ==
  LET kids == elem[self.element].kids
  IN  IF IsChild(kids, oldElement.element)
      THEN \E tag \in Tags, text \in NewTexts :
             /\ changes < MaxChanges
             /\ changes' = changes + 1
             /\ elem' = WithChild(elem, self.element,
                          InsertKids(elem, self.element,
                                     InsertAfterIndex(kids, oldElement.element),
                                     NewId),
                          tag, text)
             /\ last' = Call("insertAfter", self, tag, text, 0, oldElement,
                             WrapElement(self, NewId), NoneText, "")
      ELSE /\ last' = Call("insertAfter", self, "", NoneText, 0, oldElement,
                           NoWrapper, NoneText, "ValueError")
           /\ UNCHANGED <<elem, changes>>

\* A remove that drops the last child, whichever child it is given.
RemoveKidsLast(kids, c) == SubSeq(kids, 1, Len(kids) - 1)

\* A remove that passes over a node that is no child without failing.
RemoveSilently(self, metadata_element) ==
  LET kids == elem[self.element].kids
  IN  /\ IsChild(kids, metadata_element.element) => changes < MaxChanges
      /\ changes' = IF IsChild(kids, metadata_element.element)
                    THEN changes + 1 ELSE changes
      /\ elem' = [elem EXCEPT ![self.element].kids =
                    ElRemove(kids, metadata_element.element)]
      /\ last' = Call("remove", self, "", NoneText, 0, metadata_element,
                      NoWrapper, NoneText, "")

\* remove(metadata_element): element.remove() raises ValueError for an
\* element that is no child.
RemoveKids(kids, c) == ElRemove(kids, c)

Remove(self, metadata_element) ==
  LET kids == elem[self.element].kids
  IN  IF IsChild(kids, metadata_element.element)
      THEN /\ changes < MaxChanges
           /\ changes' = changes + 1
           /\ elem' = [elem EXCEPT ![self.element].kids =
                         RemoveKids(kids, metadata_element.element)]
           /\ last' = Call("remove", self, "", NoneText, 0, metadata_element,
                           NoWrapper, NoneText, "")
      ELSE /\ last' = Call("remove", self, "", NoneText, 0, metadata_element,
                           NoWrapper, NoneText, "ValueError")
           /\ UNCHANGED <<elem, changes>>

\* ---------------------------------------------------------- navigation
\* A match that never looks at the text.
MatchesAnything(el, e, text) == TRUE

\* matches(e) of _findall: a text that is None or empty matches any element.
Matches(el, e, text) ==
  IF text # NoneText /\ text # "" THEN el[e].text = text ELSE TRUE

\* self._findall(tag, text): the matching direct children, wrapped.
FindallSeq(el, self, tag, text) ==
  LET found == SelectSeq(ElFindall(el, self.element, tag),
                         LAMBDA e : Matches(el, e, text))
  IN  [i \in 1 .. Len(found) |-> WrapElement(self, found[i])]

\* A find that returns the last match.
FindResultLast(el, self, tag, text) ==
  LET found == FindallSeq(el, self, tag, text)
  IN  IF found = <<>> THEN NoWrapper ELSE found[Len(found)]

\* find(tag, text): next(self._findall(tag, text), None)
FindResult(el, self, tag, text) ==
  LET found == FindallSeq(el, self, tag, text)
  IN  IF found = <<>> THEN NoWrapper ELSE Head(found)

Find(self, tag, text) ==
  /\ last' = Call("find", self, tag, text, 0, NoWrapper,
                  FindResult(elem, self, tag, text), NoneText, "")
  /\ UNCHANGED <<elem, changes>>

\* self._get_child(childname): the wrapped first child of that name, or
\* NoWrapper where the code raises AttributeError.
GetChildResult(el, self, childname) ==
  LET child_element == ElFind(el, self.element, childname)
  IN  IF child_element = None THEN NoWrapper
      ELSE WrapElement(self, child_element)

ErrorOf(result, error) == IF result = NoWrapper THEN error ELSE ""

\* __getattr__(childname) and __getitem__(item) with a string.
GetChild(self, childname) ==
  LET result == GetChildResult(elem, self, childname)
  IN  /\ last' = Call("getchild", self, childname, NoneText, 0, NoWrapper,
                      result, NoneText, ErrorOf(result, "AttributeError"))
      /\ UNCHANGED <<elem, changes>>

\* children[item] of a Python list: 0-based, from the end when negative;
\* None where Python raises IndexError.
ListItem(children, item) ==
  LET n == Len(children)
  IN  IF item >= 0 /\ item < n THEN children[item + 1]
      ELSE IF item < 0 /\ -item <= n THEN children[n + item + 1]
      ELSE None

\* The list __getitem__ indexes: the children of self._parent having
\* self's tag.
GetItemChildren(el, self) == ElFindall(el, self.parent, el[self.element].tag)

\* __getitem__(item) with an integer: the item-th of them, wrapped by self.
GetItemResult(el, self, item) ==
  LET child == ListItem(GetItemChildren(el, self), item)
  IN  IF child = None THEN NoWrapper ELSE WrapElement(self, child)

\* The root has no _parent, and None.findall raises AttributeError.
GetItem(self, item) ==
  IF self.parent = None
  THEN /\ last' = Call("getitem", self, "", NoneText, item, NoWrapper,
                       NoWrapper, NoneText, "AttributeError")
       /\ UNCHANGED <<elem, changes>>
  ELSE LET result == GetItemResult(elem, self, item)
       IN  /\ last' = Call("getitem", self, "", NoneText, item, NoWrapper,
                           result, NoneText, ErrorOf(result, "IndexError"))
           /\ UNCHANGED <<elem, changes>>

\* len(self._element): lxml counts every child node, comments included.
HasChildren(el, e) == Len(el[e].kids) > 0

\* The text property: the child named "text" when self has children, the
\* element's own text otherwise.
ReadText(self) ==
  IF HasChildren(elem, self.element)
  THEN LET result == GetChildResult(elem, self, TextTag)
       IN  /\ last' = Call("text", self, "", NoneText, 0, NoWrapper, result,
                           NoneText, ErrorOf(result, "AttributeError"))
           /\ UNCHANGED <<elem, changes>>
  ELSE /\ last' = Call("text", self, "", NoneText, 0, NoWrapper, NoWrapper,
                       elem[self.element].text, "")
       /\ UNCHANGED <<elem, changes>>

\* ------------------------------------------------------- specification
Init ==
  /\ elem \in Documents
  /\ last = NoCall
  /\ changes = 0

Kids(self) == elem[self.element].kids

Siblings(self) ==
  IF self.parent = None THEN <<>> ELSE GetItemChildren(elem, self)

Next ==
  \/ \E self \in Held, tag \in Tags, text \in NewTexts :
       AppendChild(self, tag, text)
  \/ \E self \in Held, tag \in Tags, text \in NewTexts :
       \E index \in Indexes(Len(Kids(self))) :
         InsertChild(self, index, tag, text)
  \/ \E self \in Held, w \in Held : InsertBefore(self, w)
  \/ \E self \in Held, w \in Held : InsertAfter(self, w)
  \/ \E self \in Held, w \in Held : Remove(self, w)
  \/ \E self \in Held, tag \in Tags, text \in FindTexts :
       Find(self, tag, text)
  \/ \E self \in Held, childname \in Tags : GetChild(self, childname)
  \/ \E self \in Held : \E item \in ItemIndexes(Len(Siblings(self))) :
       GetItem(self, item)
  \/ \E self \in Held : ReadText(self)

Spec == Init /\ [][Next]_vars

\* ---------------------------------------------------------- properties
\* The receiver's children after the last call, and the element it made.
LastKids == elem[last.recv.element].kids

New == last.result.element

Max(S) == CHOOSE x \in S : \A y \in S : y <= x

Min(S) == CHOOSE x \in S : \A y \in S : x <= y

\* k is b with n put at 0-based position p, b's order kept.
PlacedAt(k, b, p, n) ==
  /\ p \in 0 .. Len(b)
  /\ Len(k) = Len(b) + 1
  /\ k[p + 1] = n
  /\ \A i \in 1 .. p : k[i] = b[i]
  /\ \A i \in (p + 1) .. Len(b) : k[i + 1] = b[i]

\* The call made a new element, wrapped it and returned it.
ReturnsNew ==
  /\ New = Len(elem)
  /\ ~IsChild(last.before, New)
  /\ elem[New].tag = last.tag
  /\ elem[New].text = last.text
  /\ elem[New].kids = <<>>

\* The positions in `kids` of the children with the tag.
TagPositions(kids, tag) == {i \in 1 .. Len(kids) : elem[kids[i]].tag = tag}

\* A text as find() is documented to read it: no text asks for nothing.
TextFits(e, text) == text \in {NoneText, ""} \/ elem[e].text = text

\* The element whose child list holds e, or None.
ParentOf(e) ==
  IF \E p \in 1 .. Len(elem) : IsChild(elem[p].kids, e)
  THEN CHOOSE p \in 1 .. Len(elem) : IsChild(elem[p].kids, e)
  ELSE None

\* C1: append(tag, text) adds exactly one new child, right after the last
\* child with that tag if there is one and as the last child otherwise; the
\* other children keep their order and the new child is returned.
C1_AppendPlacement ==
  last.op = "append" =>
    LET same == TagPositions(last.before, last.tag)
    IN  /\ ReturnsNew
        /\ PlacedAt(LastKids, last.before,
                    IF same = {} THEN Len(last.before) ELSE Max(same), New)

\* An append that lands between children: a child of another tag follows
\* the last child with the tag.
C1_Witness ==
  /\ last.op = "append"
  /\ TagPositions(last.before, last.tag) # {}
  /\ Max(TagPositions(last.before, last.tag)) < Len(last.before)
  /\ LastKids[Max(TagPositions(last.before, last.tag)) + 1] = New

\* C2 as stated: insert(index, tag, text) puts the new child at child
\* position index, whatever index is given.
C2_InsertAtIndex ==
  (last.op = "insert" /\ last.index >= 0) =>
    /\ ReturnsNew
    /\ PlacedAt(LastKids, last.before, last.index, New)

\* C2, amended: insert(index, tag, text) puts the new child at the literal
\* child position index, among all the children, when index is between 0
\* and the number of children; a larger index puts it last.  On children
\* [A, B, C], all "members", append("members") gives [A, B, C, D] and a
\* following insert(1, "members") gives [A, X, B, C, D].
C2_InsertWithinRange ==
  /\ last.op = "insert" /\ last.index >= 0 =>
       /\ ReturnsNew
       /\ PlacedAt(LastKids, last.before,
                   IF last.index <= Len(last.before) THEN last.index
                   ELSE Len(last.before), New)
  /\ ( /\ last.op = "append"
       /\ last.tag = "members"
       /\ Len(last.before) = 3
       /\ TagPositions(last.before, "members") = 1 .. 3 ) =>
       /\ LastKids = Append(last.before, New)
       /\ InsertKids(elem, last.recv.element, 1, NewId) =
            << last.before[1], NewId, last.before[2], last.before[3], New >>

\* insert(1, ...) among three children: the new child is the second child,
\* not the second of its tag.
C2_Witness ==
  /\ last.op = "insert"
  /\ last.index = 1
  /\ Len(last.before) = 3
  /\ last.tag # elem[last.before[1]].tag
  /\ LastKids = << last.before[1], New, last.before[2], last.before[3] >>

\* C3 as stated: after append(tag, text), find(tag, text) on the same node
\* returns the new child whenever it is the only or the last child with the
\* tag.  find reads the tree and nothing else, so the find that follows is
\* FindResult in the state append leaves.
C3_AppendThenFind ==
  (last.op = "append"
     /\ Max(TagPositions(LastKids, last.tag)) =
          CHOOSE i \in 1 .. Len(LastKids) : LastKids[i] = New) =>
    FindResult(elem, last.recv, last.tag, last.text) = last.result

\* The children before the appended one that find(tag, text) accepts.
EarlierMatches ==
  {i \in TagPositions(last.before, last.tag) :
     TextFits(last.before[i], last.text)}

\* C3, amended: after append(tag, text), find(tag, text) on the same node
\* returns the new child when no earlier child with the tag has the text
\* (so when it is the only child with the tag), and the first such earlier
\* child otherwise.
C3_AppendThenFindFirst ==
  last.op = "append" =>
    LET found == FindResult(elem, last.recv, last.tag, last.text)
    IN  IF EarlierMatches = {} THEN found = last.result
        ELSE found.element = last.before[Min(EarlierMatches)]

\* The appended child is found although another child with its tag comes
\* before it.
C3_Witness ==
  /\ last.op = "append"
  /\ TagPositions(last.before, last.tag) # {}
  /\ EarlierMatches = {}
  /\ FindResult(elem, last.recv, last.tag, last.text) = last.result

\* C4: node[i] is the i-th child of node's parent having node's tag, for
\* every node navigation reaches.
C4_IndexedSibling ==
  (last.op = "getitem" /\ ParentOf(last.recv.element) # None) =>
    LET siblings == ElFindall(elem, ParentOf(last.recv.element),
                              elem[last.recv.element].tag)
    IN  (last.index >= 0 /\ last.index < Len(siblings)) =>
          /\ last.error = ""
          /\ last.result.element = siblings[last.index + 1]

\* The direct children find(tag, text) is said to accept when every text
\* given counts, the empty one too.
GivenTextMatches ==
  {i \in TagPositions(LastKids, last.tag) :
     last.text # NoneText => elem[LastKids[i]].text = last.text}

\* C5 as stated: find(tag, text) returns the first direct child with the
\* tag whose text is the text given, whenever one is given, and the absent
\* value when there is none.
C5_FindGivenText ==
  last.op = "find" =>
    /\ last.error = ""
    /\ IF GivenTextMatches = {} THEN last.result = NoWrapper
       ELSE last.result.element = LastKids[Min(GivenTextMatches)]

FindMatches ==
  {i \in TagPositions(LastKids, last.tag) : TextFits(LastKids[i], last.text)}

\* C5, amended: find(tag, text) returns the first direct child with the tag
\* whose text is the text given, whenever a text that is not empty is given
\* (an empty text counts as none given); it returns the absent value, and
\* does not fail, when no direct child matches.
C5_FindFirstMatch ==
  last.op = "find" =>
    /\ last.error = ""
    /\ IF FindMatches = {} THEN last.result = NoWrapper
       ELSE last.result.element = LastKids[Min(FindMatches)]

\* find("...", "A") passes over a child with the tag and another text.
C5_Witness ==
  /\ last.op = "find"
  /\ last.text = "A"
  /\ last.result # NoWrapper
  /\ last.result.element # LastKids[Min(TagPositions(LastKids, last.tag))]

\* C6: reading text gives the child named "text" when the node has an
\* element child (ChildNotFound when there is none of that name), and the
\* node's own text, without failing, when it has no element child.
C6_TextRead ==
  last.op = "text" =>
    IF \E i \in 1 .. Len(LastKids) : elem[LastKids[i]].tag # CommentTag
    THEN IF TagPositions(LastKids, TextTag) = {}
         THEN last.error = "AttributeError"
         ELSE /\ last.error = ""
              /\ last.result.element =
                   LastKids[Min(TagPositions(LastKids, TextTag))]
    ELSE /\ last.error = ""
         /\ last.result = NoWrapper
         /\ last.value = elem[last.recv.element].text

\* The removed child was the only one find(its tag, its text) accepted.
OnlyMatch(c) ==
  \A i \in 1 .. Len(last.before) :
    (last.before[i] # c /\ elem[last.before[i]].tag = elem[c].tag) =>
      ~TextFits(last.before[i], elem[c].text)

\* C7: remove(child) takes child out of the node's children, the others
\* keep their order, and find(child's tag, child's text) on the node then
\* returns the absent value if child was the only match.
C7_RemoveThenFind ==
  (last.op = "remove" /\ last.error = "") =>
    LET c == last.arg.element
    IN  /\ ~IsChild(LastKids, c)
        /\ \E p \in 0 .. Len(LastKids) : PlacedAt(last.before, LastKids, p, c)
        /\ OnlyMatch(c) =>
             FindResult(elem, last.recv, elem[c].tag, elem[c].text) = NoWrapper

\* The only match is removed while another child with its tag stays.
C7_Witness ==
  /\ last.op = "remove"
  /\ last.error = ""
  /\ OnlyMatch(last.arg.element)
  /\ TagPositions(LastKids, elem[last.arg.element].tag) # {}
  /\ FindResult(elem, last.recv, elem[last.arg.element].tag,
                elem[last.arg.element].text) = NoWrapper

\* C8: insertBefore(child, ...) puts the new child where child was, right
\* before it, insertAfter(child, ...) right after it; the other children
\* keep their order and the new child is returned.
C8_InsertBesideChild ==
  (last.op \in {"insertBefore", "insertAfter"} /\ last.error = "") =>
    LET at == CHOOSE i \in 1 .. Len(last.before) :
                last.before[i] = last.arg.element
    IN  /\ ReturnsNew
        /\ PlacedAt(LastKids, last.before,
                    IF last.op = "insertBefore" THEN at - 1 ELSE at, New)

\* insertAfter a child that is not the last one.
C8_Witness ==
  /\ last.op = "insertAfter"
  /\ last.error = ""
  /\ \E i \in 1 .. (Len(LastKids) - 2) :
       /\ LastKids[i] = last.arg.element
       /\ LastKids[i + 1] = New

PositionalOps == {"insertBefore", "insertAfter", "remove"}

\* C9: insertBefore, insertAfter and remove, given a node that is no direct
\* child of the receiver, fail with the lookup's ValueError and leave the
\* tree as it was: nothing is created, inserted or removed.
C9_NotAChild ==
  [][ (last'.op \in PositionalOps
         /\ ~IsChild(elem[last'.recv.element].kids, last'.arg.element)) =>
        (last'.error = "ValueError" /\ elem' = elem) ]_vars

\* A call fails on a node that is in the tree, under another parent.
C9_Witness ==
  /\ last.op \in PositionalOps
  /\ last.error = "ValueError"
  /\ LastKids = last.before
  /\ ParentOf(last.arg.element) \notin {None, last.recv.element}

NamedOps ==
  {"getchild", "find", "text", "append", "insert", "insertBefore",
   "insertAfter"}

====
